---- MODULE Spec2Model ----
(***************************************************************************)
(* FootyFeud: the web game session of app.py (Streamlit session_state, the *)
(* statistics bookkeeping, the Daily lock and the date-seeded secret) and  *)
(* the command-line loop of main.py.                                       *)
(***************************************************************************)
EXTENDS Integers, Sequences, FiniteSets, TLC

(***************************************************************************)
(* Bounds of the model.                                                    *)
(***************************************************************************)
\* Calendar days the clock may advance past StartDate.
MaxDay == 2
\* Game sessions in which guesses are accepted, in one run.
MaxGames == 1
\* Dataset entries the entropy-seeded generator may return for a Random secret.
RandomPicks == 2
\* Width of the window of dataset entries offered to the user for each guess.
SelectWindow == 1
\* Game sessions in which guesses are accepted, over all app sessions of one run.
MaxTabGames == 2
\* Draws other sessions may take from a date-seeded generator before it is reseeded.
MaxDraws == 2
\* Width in years of the window of ages handed to the feedback evaluators.
AgeSpan == 3

(***************************************************************************)
(* Program constants.                                                      *)
(***************************************************************************)
\* app.py:482 `len(guesses) >= 6`, main.py:8 `attempts = 6`.
MaxGuesses == 6

(***************************************************************************)
(* The dataset (data/players.json is not part of the sources: a fixed list *)
(* of entities with unique names, in load order).  B and C differ only by  *)
(* name; the ages cover the differences 0, 1, 2 and more than 2.           *)
(***************************************************************************)
Players ==
  << [name |-> "A", nationality |-> "FR", league |-> "L1", club |-> "PSG", position |-> "FW", age |-> 25],
     [name |-> "B", nationality |-> "EN", league |-> "PL", club |-> "MCI", position |-> "MF", age |-> 27],
     [name |-> "C", nationality |-> "EN", league |-> "PL", club |-> "MCI", position |-> "MF", age |-> 27],
     [name |-> "D", nationality |-> "EN", league |-> "PL", club |-> "ARS", position |-> "DF", age |-> 26],
     [name |-> "E", nationality |-> "ES", league |-> "LL", club |-> "RMA", position |-> "FW", age |-> 30],
     [name |-> "F", nationality |-> "AR", league |-> "MLS", club |-> "MIA", position |-> "FW", age |-> 36],
     [name |-> "G", nationality |-> "NO", league |-> "PL", club |-> "MCI", position |-> "FW", age |-> 24] >>

NPlayers == Len(Players)

PlayerIdx == 1..NPlayers

\* session_state holds no 'secret_player' key.
NoPlayer == 0

PlayerNames == {Players[i].name : i \in PlayerIdx}

\* The selectbox placeholders (app.py:537 and app.py:540).
Placeholders == {"Select a player...", "No results found"}

(***************************************************************************)
(* Calendar: date objects are records, str(date) is the ISO text, modelled *)
(* as the triple of its three decimal fields.                              *)
(***************************************************************************)
StartDate == [year |-> 2024, month |-> 2, day |-> 28]

IsLeap(y) == (y % 4 = 0 /\ y % 100 # 0) \/ y % 400 = 0

DaysInMonth(y, m) ==
  IF m = 2 THEN (IF IsLeap(y) THEN 29 ELSE 28)
  ELSE IF m \in {4, 6, 9, 11} THEN 30 ELSE 31

RECURSIVE DaysBeforeMonth(_, _)
DaysBeforeMonth(y, m) ==
  IF m = 1 THEN 0 ELSE DaysBeforeMonth(y, m - 1) + DaysInMonth(y, m - 1)

\* date.toordinal()
ToOrdinal(d) ==
  LET y == d.year - 1
  IN  y * 365 + (y \div 4) - (y \div 100) + (y \div 400)
        + DaysBeforeMonth(d.year, d.month) + d.day

\* date + timedelta(days=1)
NextDay(d) ==
  IF d.day < DaysInMonth(d.year, d.month) THEN [d EXCEPT !.day = d.day + 1]
  ELSE IF d.month < 12 THEN [year |-> d.year, month |-> d.month + 1, day |-> 1]
  ELSE [year |-> d.year + 1, month |-> 1, day |-> 1]

\* date - timedelta(days=1)
PrevDay(d) ==
  IF d.day > 1 THEN [d EXCEPT !.day = d.day - 1]
  ELSE IF d.month > 1
       THEN [year |-> d.year, month |-> d.month - 1, day |-> DaysInMonth(d.year, d.month - 1)]
  ELSE [year |-> d.year - 1, month |-> 12, day |-> 31]

\* str(date): "%Y-%m-%d"
DateStr(d) == <<d.year, d.month, d.day>>

\* datetime.strptime(s, "%Y-%m-%d").date()
ParseDate(s) == [year |-> s[1], month |-> s[2], day |-> s[3]]

\* last_played_date = None
NoDate == <<>>

(***************************************************************************)
(* Statistics records.                                                     *)
(***************************************************************************)
Modes == {"daily", "random"}

\* str(k) and int(s) for the distribution keys.
StrKeys == <<"1", "2", "3", "4", "5", "6">>

StrOfInt(k) == StrKeys[k]

IntOfStr(s) == CHOOSE k \in 1..Len(StrKeys) : StrKeys[k] = s

\* The stored defaults written by create_user.
StoredDefaults ==
  [daily  |-> [played |-> 0, won |-> 0, current_streak |-> 0, max_streak |-> 0,
               distribution |-> [s \in {StrOfInt(i) : i \in 1..6} |-> 0],
               last_played_date |-> NoDate],
   random |-> [played |-> 0, won |-> 0, current_streak |-> 0,
               distribution |-> [s \in {StrOfInt(i) : i \in 1..6} |-> 0]]]

\* A returning user's document: Daily sessions won in 3 and in 2 guesses, lost,
\* and won in 5 guesses earlier on StartDate; one Random session won in 4
\* guesses.
ReturningUser ==
  [daily  |-> [played |-> 4, won |-> 3, current_streak |-> 1, max_streak |-> 2,
               distribution |-> [s \in {StrOfInt(i) : i \in 1..6} |->
                                   IF s \in {"2", "3", "5"} THEN 1 ELSE 0],
               last_played_date |-> DateStr(StartDate)],
   random |-> [played |-> 1, won |-> 1, current_streak |-> 1,
               distribution |-> [s \in {StrOfInt(i) : i \in 1..6} |->
                                   IF s = "4" THEN 1 ELSE 0]]]

\* load_user_stats: the stored record with the distribution keys made integers.
load_user_stats(stored) ==
  [mode \in Modes |->
     [stored[mode] EXCEPT !.distribution =
        [k \in {IntOfStr(s) : s \in DOMAIN stored[mode].distribution} |->
           stored[mode].distribution[StrOfInt(k)]]]]

\* The statistics of a session that holds none of a user's games.
ZeroStats == load_user_stats(StoredDefaults)

\* Mutant: buckets that count nothing are left out of the stored record.
StoredForm_DropsZero(mode_data) ==
  [mode_data EXCEPT !.distribution =
     [s \in {StrOfInt(k) : k \in {j \in DOMAIN mode_data.distribution :
                                    mode_data.distribution[j] > 0}} |->
        mode_data.distribution[IntOfStr(s)]]]

\* The record save_stats hands to update_user_stats for one mode.
StoredForm(mode_data) ==
  [mode_data EXCEPT !.distribution =
     [s \in {StrOfInt(k) : k \in DOMAIN mode_data.distribution} |->
        mode_data.distribution[IntOfStr(s)]]]

(***************************************************************************)
(* The process-wide generator of the random module.  A generator seeded    *)
(* with a number produces a fixed sequence of draws; one seeded from the   *)
(* operating system's entropy (random.seed() with no argument, or at       *)
(* import) may produce any draw.                                           *)
(***************************************************************************)
\* random.seed(n)
SeedWith(n) == [kind |-> "seeded", seed |-> n, draws |-> 0]

\* random.seed()
SeedEntropy == [kind |-> "entropy", seed |-> 0, draws |-> 0]

\* The index a generator seeded with `seed` returns on its draw number `draws`
\* out of n entries: a fixed function of the seed and the position.
SeededIndex(seed, draws, n) == ((seed + 3 * draws) % n) + 1

\* random.choice(player_list) on generator r: the possible <<index, generator after>>.
get_random_player(r, n) ==
  IF r.kind = "seeded"
  THEN {<<SeededIndex(r.seed, r.draws, n), [r EXCEPT !.draws = @ + 1]>>}
  ELSE {<<i, r>> : i \in {j \in 1..n : j <= RandomPicks}}

\* random.sample(all_players, min(10, len(all_players))): only the generator moves.
SampleDraw(r) == IF r.kind = "seeded" THEN [r EXCEPT !.draws = @ + 1] ELSE r

(***************************************************************************)
(* State.                                                                  *)
(***************************************************************************)
VARIABLES
  program,          \* which entry point runs: "web" (app.py) or "cli" (main.py)
  today,            \* date.today()
  rng,              \* the global generator of the random module
  store,            \* the user's document in the statistics store
  authenticated,    \* st.session_state.authenticated
  stats,            \* st.session_state.stats
  has_seen_help,    \* st.session_state.has_seen_help
  streak_checked,   \* 'streak_checked' in st.session_state
  streak_runs,      \* history: check_and_fix_streak calls since the session was authenticated
  game_mode,        \* st.session_state.game_mode ("None", "Daily", "Random")
  secret_player,    \* st.session_state.secret_player (index into Players, NoPlayer)
  guesses,          \* st.session_state.guesses (indices into Players)
  game_over,        \* st.session_state.game_over
  secret_date,      \* history: the date whose ordinal seeded the Daily secret
  session_log,      \* history: statistics updates and save requests of this game session
  daily_terminals,  \* history: dates of the Daily terminal updates of this app session
  games,            \* bound: game sessions started within the MaxGames budget
  in_budget,        \* bound: this game session is within the budget
  cli_secret,       \* play_game: secret_player
  attempts,         \* play_game: attempts
  cli_pc,           \* play_game: "loop", "after_loop", "done"
  cli_out,          \* play_game: the result messages printed
  cli_guessed,      \* history: the players the guesses of this game resolved to
  cli_misses,       \* history: resolved guesses of this game that were not the secret
  fb_guess,         \* feedback: the guessed entity handed to the evaluators
  fb_secret,        \* feedback: the secret entity handed to the evaluators
  fb_web,           \* feedback: the guess grid row app.py renders (NoFeedback: none yet)
  fb_cli,           \* feedback: the block get_feedback returns (NoFeedback: none yet)
  write_fails,      \* the modes whose update_user_stats call raises inside (store fault)
  tab_pc,           \* per app session: "closed", "menu", "seeded", "chosen", "game"
  tab_stats,        \* per app session: st.session_state.stats
  tab_mode,         \* per app session: st.session_state.game_mode
  tab_secret,       \* per app session: st.session_state.secret_player
  tab_guesses,      \* per app session: st.session_state.guesses
  tab_over,         \* per app session: st.session_state.game_over
  tab_budget,       \* bound: per app session, the game session is within the budget
  tab_games,        \* bound: game sessions started within the MaxTabGames budget
  daily_inited,     \* history: some Daily initialisation has completed
  seed_leaked,      \* history: an unrelated draw used a date-seeded generator state
  day_terminals,    \* history: Daily terminal updates written for today's date
  day_guesses,      \* history: guesses evaluated against today's Daily secret
  find_pc,          \* name search: "idle", or "done" after find_player_by_name returned
  find_scores,      \* name search: the similarity score of each name of player_list
  find_result,      \* name search: the position find_player_by_name returned (NoPlayer: None)
  auth_pc,          \* sign-up: "idle", or "done" after create_user ended
  auth_input,       \* sign-up: the arguments and the store's behaviour for the call
  auth_result       \* sign-up: how create_user ended

webVars == <<today, rng, store, authenticated, stats, has_seen_help, game_mode,
             secret_player, guesses, game_over, secret_date, session_log, daily_terminals,
             games, in_budget, streak_checked, streak_runs>>

cliVars == <<cli_secret, attempts, cli_pc, cli_out, cli_guessed, cli_misses>>

fbVars == <<fb_guess, fb_secret, fb_web, fb_cli>>

\* State of the other specifications, untouched by the game actions.
tabVars == <<tab_pc, tab_stats, tab_mode, tab_secret, tab_guesses, tab_over, tab_budget,
             tab_games, daily_inited, seed_leaked, day_terminals, day_guesses>>

\* State of the name search and of the sign-up.
libVars == <<find_pc, find_scores, find_result, auth_pc, auth_input, auth_result>>

auxVars == <<fbVars, write_fails, tabVars, libVars>>

vars == <<program, webVars, cliVars, auxVars>>

gameVars == <<game_mode, secret_player, guesses, game_over, secret_date, session_log,
              in_budget>>

(***************************************************************************)
(* Statistics Aggregator: the in-line updates of update_search_results.    *)
(***************************************************************************)
\* Mutant: the bucket is indexed with the guess count taken before the append.
RecordWin_WrongBucket(s, mode, n, day) ==
  LET m1 == [s[mode] EXCEPT !.played = @ + 1, !.won = @ + 1, !.current_streak = @ + 1,
                            !.distribution[n - 1] = @ + 1]
      m2 == IF mode = "daily" THEN [m1 EXCEPT !.last_played_date = DateStr(day)] ELSE m1
      m3 == IF mode = "daily" /\ m2.current_streak > m2.max_streak
            THEN [m2 EXCEPT !.max_streak = m2.current_streak] ELSE m2
  IN  [s EXCEPT ![mode] = m3]

\* Mutant: max_streak is never raised.
RecordWin_NoMaxStreak(s, mode, n, day) ==
  LET m1 == [s[mode] EXCEPT !.played = @ + 1, !.won = @ + 1, !.current_streak = @ + 1,
                            !.distribution[n] = @ + 1]
      m2 == IF mode = "daily" THEN [m1 EXCEPT !.last_played_date = DateStr(day)] ELSE m1
  IN  [s EXCEPT ![mode] = m2]

\* app.py:471-479, the WIN branch, for a win on guess number n.
RecordWin(s, mode, n, day) ==
  LET m1 == [s[mode] EXCEPT !.played = @ + 1, !.won = @ + 1, !.current_streak = @ + 1,
                            !.distribution[n] = @ + 1]
      m2 == IF mode = "daily" THEN [m1 EXCEPT !.last_played_date = DateStr(day)] ELSE m1
      m3 == IF mode = "daily" /\ m2.current_streak > m2.max_streak
            THEN [m2 EXCEPT !.max_streak = m2.current_streak] ELSE m2
  IN  [s EXCEPT ![mode] = m3]

\* Mutant: a loss clears the current streak of both modes.
RecordLoss_BothModes(s, mode, day) ==
  LET m1 == [s[mode] EXCEPT !.played = @ + 1, !.current_streak = 0]
      m2 == IF mode = "daily" THEN [m1 EXCEPT !.last_played_date = DateStr(day)] ELSE m1
  IN  [o \in Modes |-> IF o = mode THEN m2 ELSE [s[o] EXCEPT !.current_streak = 0]]

\* Mutant: a loss also resets the best streak.
RecordLoss_ResetsMax(s, mode, day) ==
  LET m1 == [s[mode] EXCEPT !.played = @ + 1, !.current_streak = 0]
      m2 == IF mode = "daily"
            THEN [m1 EXCEPT !.last_played_date = DateStr(day), !.max_streak = 0] ELSE m1
  IN  [s EXCEPT ![mode] = m2]

\* app.py:483-487, the LOSS branch.
RecordLoss(s, mode, day) ==
  LET m1 == [s[mode] EXCEPT !.played = @ + 1, !.current_streak = 0]
      m2 == IF mode = "daily" THEN [m1 EXCEPT !.last_played_date = DateStr(day)] ELSE m1
  IN  [s EXCEPT ![mode] = m2]

\* Mutant: only the Daily record is written.
save_stats_DailyOnly(st, s) == [st EXCEPT !["daily"] = StoredForm(s["daily"])]

\* save_stats: both modes' records written to the user's document.
save_stats(st, s) == [st EXCEPT !["daily"] = StoredForm(s["daily"]),
                                !["random"] = StoredForm(s["random"])]

\* Mutant: a failed write empties the mode's stored record.
update_user_stats_ClearsOnError(st, mode, stats_data, raises) ==
  IF raises THEN [st EXCEPT ![mode] = StoredDefaults[mode]]
  ELSE [st EXCEPT ![mode] = stats_data]

\* AuthManager.update_user_stats: the document keeps its content when the
\* update raises (the exception is caught and False returned).
update_user_stats(st, mode, stats_data, raises) ==
  IF raises THEN st ELSE [st EXCEPT ![mode] = stats_data]

\* save_stats as it runs: one update_user_stats call per mode, 'daily' then
\* 'random', the returned flags ignored; `fails` are the modes whose call raises.
save_stats_calls(st, s, fails) ==
  LET written == save_stats(st, s)
      st1 == update_user_stats(st, "daily", written["daily"], "daily" \in fails)
  IN  update_user_stats(st1, "random", written["random"], "random" \in fails)

\* Mutant: the test against yesterday is missing.
check_and_fix_streak_NoYesterday(s, day) ==
  LET last_played == s["daily"].last_played_date
  IN  IF last_played # NoDate
      THEN LET last_date == ParseDate(last_played)
           IN  IF last_date # day /\ s["daily"].current_streak > 0
               THEN <<[s EXCEPT !["daily"].current_streak = 0], TRUE>>
               ELSE <<s, FALSE>>
      ELSE <<s, FALSE>>

\* check_and_fix_streak: <<statistics after, whether save_stats was called>>.
check_and_fix_streak(s, day) ==
  LET last_played == s["daily"].last_played_date
  IN  IF last_played # NoDate
      THEN LET last_date == ParseDate(last_played)
               yesterday == PrevDay(day)
           IN  IF last_date # yesterday /\ last_date # day /\ s["daily"].current_streak > 0
               THEN <<[s EXCEPT !["daily"].current_streak = 0], TRUE>>
               ELSE <<s, FALSE>>
      ELSE <<s, FALSE>>

(***************************************************************************)
(* The game session: the pieces of update_search_results and of the game   *)
(* initialisation, each as the code writes it.                             *)
(***************************************************************************)
Range(f) == {f[i] : i \in DOMAIN f}

\* app.py:467 `st.session_state.game_mode.lower()`
ModeKey(gm) == IF gm = "Daily" THEN "daily" ELSE "random"

\* app.py:458 `selected and selected not in [...]`; the first literal is written
\* without its leading magnifying-glass glyph (ASCII strings only).
IsSelection(selected) ==
  selected # "" /\ selected \notin {"Type to search...", "No results found"}

\* Mutant: a value that matches no name falls back to the first player.
Resolve_FirstOnMiss(selected) ==
  IF \E i \in PlayerIdx : Players[i].name = selected
  THEN CHOOSE i \in PlayerIdx :
         /\ Players[i].name = selected
         /\ \A j \in PlayerIdx : Players[j].name = selected => i <= j
  ELSE 1

\* app.py:460 `next((p for p in all_players if p["name"] == selected), None)`
Resolve(selected) ==
  IF \E i \in PlayerIdx : Players[i].name = selected
  THEN CHOOSE i \in PlayerIdx :
         /\ Players[i].name = selected
         /\ \A j \in PlayerIdx : Players[j].name = selected => i <= j
  ELSE NoPlayer

\* Mutant: only the latest guess is compared.
AlreadyGuessed_LastOnly(gp, gs) ==
  gs # <<>> /\ Players[gp].name = Players[gs[Len(gs)]].name

\* app.py:463 `guessed_player['name'] not in [g['name'] for g in guesses]`, negated
AlreadyGuessed(gp, gs) == Players[gp].name \in {Players[gs[j]].name : j \in DOMAIN gs}

\* Mutant: a win is inferred from the five compared attributes.
IsWin_AllAttributes(gp, secret) ==
  /\ Players[gp].nationality = Players[secret].nationality
  /\ Players[gp].league = Players[secret].league
  /\ Players[gp].club = Players[secret].club
  /\ Players[gp].position = Players[secret].position
  /\ Players[gp].age = Players[secret].age

\* app.py:470 `guessed_player['name'] == secret_player['name']`
IsWin(gp, secret) == Players[gp].name = Players[secret].name

\* Mutant: the ceiling is tested with > instead of >=.
IsLoss_StrictlyMore(gs) == Len(gs) > MaxGuesses

\* app.py:482 `len(st.session_state.guesses) >= 6`
IsLoss(gs) == Len(gs) >= MaxGuesses

\* Mutant: the game_over test is missing.
Accepted_NoOverCheck(selected, over, gs) ==
  /\ IsSelection(selected)
  /\ Resolve(selected) # NoPlayer
  /\ ~AlreadyGuessed(Resolve(selected), gs)

\* app.py:462-463: the guess is appended
Accepted(selected, over, gs) ==
  /\ IsSelection(selected)
  /\ Resolve(selected) # NoPlayer
  /\ ~over
  /\ ~AlreadyGuessed(Resolve(selected), gs)

\* app.py:271 `date.today().toordinal()`
DailySeed(day) == ToOrdinal(day)

\* Mutant: the generator is not seeded with the date.
DailyGenerator_NoSeed(r, day) == r

\* app.py:271 `random.seed(...)`: the global generator r is replaced
DailyGenerator(r, day) == SeedWith(DailySeed(day))

\* Mutant: the stored text is compared with the ordinal instead of the ISO text.
DailyLocked_OrdinalText(s, day) == s["daily"].last_played_date = <<ToOrdinal(day)>>

\* app.py:275 and app.py:439: the Daily challenge was completed today
DailyLocked(s, day) == s["daily"].last_played_date = DateStr(day)

\* The options the user may pick in the selectbox: a placeholder, a name already
\* guessed, the secret's name, or one of the first SelectWindow players (dataset
\* order) that are neither guessed nor the secret.
Fresh(gs, secret) == {i \in PlayerIdx : i \notin Range(gs) /\ i # secret}

Selections(gs, secret) ==
  Placeholders
    \cup {Players[i].name : i \in (Range(gs) \cup {secret}) \cap PlayerIdx}
    \cup {Players[i].name : i \in {k \in Fresh(gs, secret) :
                 Cardinality({j \in Fresh(gs, secret) : j < k}) < SelectWindow}}

(***************************************************************************)
(* Attribute feedback: the guess grid of app.py and get_feedback of        *)
(* logics.py, as the colour and arrow each writes for a (guess, secret)    *)
(* pair.  Arrows are written "up" and "down"; "" is no arrow.              *)
(***************************************************************************)
NoFeedback == <<>>

Categorical == {"nationality", "league", "club", "position"}

\* Mutant: the grid colours the league green only when the club matches too.
GridColor_LeagueNeedsClub(guess, secret, attr) ==
  IF attr = "league"
  THEN (IF guess.league = secret.league /\ guess.club = secret.club
        THEN "#28a745" ELSE "#dc3545")
  ELSE (IF guess[attr] = secret[attr] THEN "#28a745" ELSE "#dc3545")

\* app.py:590-593: the colour of a categorical attribute box.
GridColor(guess, secret, attr) ==
  IF guess[attr] = secret[attr] THEN "#28a745" ELSE "#dc3545"

\* Mutant: yellow only below a difference of 2.
GridAgeColor_Below2(guess, secret) ==
  IF guess.age = secret.age THEN "#28a745"
  ELSE IF (IF guess.age - secret.age < 0 THEN secret.age - guess.age
           ELSE guess.age - secret.age) < 2 THEN "#ffc107"
  ELSE "#dc3545"

\* app.py:595: the colour of the age box.
GridAgeColor(guess, secret) ==
  IF guess.age = secret.age THEN "#28a745"
  ELSE IF (IF guess.age - secret.age < 0 THEN secret.age - guess.age
           ELSE guess.age - secret.age) <= 2 THEN "#ffc107"
  ELSE "#dc3545"

\* Mutant: the two-way arrow of get_feedback, printed always.
GridArrow_TwoWay(guess, secret) ==
  IF guess.age < secret.age THEN "up" ELSE "down"

\* app.py:594: the arrow written after the age.
GridArrow(guess, secret) ==
  IF guess.age < secret.age THEN "up"
  ELSE IF guess.age > secret.age THEN "down"
  ELSE ""

\* app.py:589-596: the five items of one grid row.
GridRow(guess, secret) ==
  [nationality |-> GridColor(guess, secret, "nationality"),
   league      |-> GridColor(guess, secret, "league"),
   club        |-> GridColor(guess, secret, "club"),
   position    |-> GridColor(guess, secret, "position"),
   age         |-> GridAgeColor(guess, secret),
   arrow       |-> GridArrow(guess, secret)]

\* logics.py:24-25 colorize
colorize(is_correct) == IF is_correct THEN "GREEN" ELSE "RED"

\* logics.py:33-36 league_status
league_status(guess, secret) ==
  IF guess.league = secret.league THEN "GREEN" ELSE "RED"

\* logics.py:39 age_diff
age_diff(guess, secret) ==
  IF guess.age - secret.age < 0 THEN secret.age - guess.age ELSE guess.age - secret.age

\* logics.py:42 arrow
arrow(guess, secret) == IF guess.age < secret.age THEN "up" ELSE "down"

\* logics.py:44-50 age_feedback: <<colour, arrow printed>>
age_feedback(guess, secret) ==
  IF guess.age = secret.age THEN <<"GREEN", "">>
  ELSE IF age_diff(guess, secret) <= 2 THEN <<"YELLOW", arrow(guess, secret)>>
  ELSE <<"PLAIN", arrow(guess, secret)>>

\* logics.py:20-56 get_feedback
get_feedback(guess, secret) ==
  [nationality |-> colorize(guess.nationality = secret.nationality),
   league      |-> league_status(guess, secret),
   club        |-> colorize(guess.club = secret.club),
   position    |-> colorize(guess.position = secret.position),
   age         |-> age_feedback(guess, secret)[1],
   arrow       |-> age_feedback(guess, secret)[2]]

\* The entities handed to the evaluators: two values per categorical attribute
\* and the ages of a window of AgeSpan years.
Entities ==
  [name : {"X"}, nationality : {"FR", "EN"}, league : {"L1", "PL"},
   club : {"PSG", "MCI"}, position : {"FW", "MF"},
   age : Players[1].age .. (Players[1].age + AgeSpan)]

FeedbackIdle ==
  /\ fb_guess = Players[1]
  /\ fb_secret = Players[1]
  /\ fb_web = NoFeedback
  /\ fb_cli = NoFeedback

(***************************************************************************)
(* Several app sessions of one user in one server process (browser tabs or *)
(* devices): each has its own session_state; the random module's generator *)
(* and the user's stored document are shared.                              *)
(***************************************************************************)
Tabs == {"A", "B"}

\* create_user has not been called: no arguments, no outcome.
NoSignUp ==
  [username |-> [len |-> 0, chars |-> "word"], password |-> 0, taken |-> FALSE,
   fails |-> FALSE]

NotCalled == [raised |-> FALSE, value |-> <<>>, written |-> FALSE]

\* No name search and no sign-up has been made.
LibIdle ==
  /\ find_pc = "idle"
  /\ find_scores = <<>>
  /\ find_result = NoPlayer
  /\ auth_pc = "idle"
  /\ auth_input = NoSignUp
  /\ auth_result = NotCalled

TabsIdle ==
  /\ tab_pc = [t \in Tabs |-> "closed"]
  /\ tab_stats = [t \in Tabs |-> ZeroStats]
  /\ tab_mode = [t \in Tabs |-> "None"]
  /\ tab_secret = [t \in Tabs |-> NoPlayer]
  /\ tab_guesses = [t \in Tabs |-> <<>>]
  /\ tab_over = [t \in Tabs |-> FALSE]
  /\ tab_budget = [t \in Tabs |-> FALSE]
  /\ tab_games = 0
  /\ daily_inited = FALSE
  /\ seed_leaked = FALSE
  /\ day_terminals = 0
  /\ day_guesses = 0

(***************************************************************************)
(* Initial state: the entry point is started; in the web app the login     *)
(* page is shown to a user whose document holds the defaults create_user   *)
(* wrote, or the statistics of earlier days.                               *)
(***************************************************************************)
Init ==
  /\ program \in {"web", "cli"}
  /\ today = StartDate
  /\ rng = SeedEntropy
  /\ store \in {StoredDefaults, ReturningUser}
  /\ authenticated = FALSE
  /\ stats = ZeroStats
  /\ has_seen_help = FALSE
  /\ streak_checked = FALSE
  /\ streak_runs = 0
  /\ game_mode = "None"
  /\ secret_player = NoPlayer
  /\ guesses = <<>>
  /\ game_over = FALSE
  /\ secret_date = NoDate
  /\ session_log = <<>>
  /\ daily_terminals = <<>>
  /\ games = 0
  /\ in_budget = FALSE
  /\ IF program = "cli"
     THEN /\ \E pick \in get_random_player(rng, NPlayers) : cli_secret = pick[1]
          /\ attempts = MaxGuesses
          /\ cli_pc = "loop"
     ELSE /\ cli_secret = NoPlayer
          /\ attempts = 0
          /\ cli_pc = "off"
  /\ cli_out = {}
  /\ cli_guessed = {}
  /\ cli_misses = 0
  /\ FeedbackIdle
  /\ write_fails = {}
  /\ TabsIdle
  /\ LibIdle

(***************************************************************************)
(* Web app actions: one per button or callback, with the script rerun that *)
(* follows it.                                                             *)
(***************************************************************************)
\* The top of the script on a rerun with a logged-in user (app.py:250-258),
\* for the statistics s the session holds and the stored document st: the
\* streak check runs when the 'streak_checked' key is absent.  Yields the
\* statistics, the document and the number of check_and_fix_streak calls.
\* Mutant: the check runs on every rerun.
streak_startup_EveryRerun(checked, s, st, fails, day) ==
  LET fixed == check_and_fix_streak(s, day)
  IN  <<fixed[1], IF fixed[2] THEN save_stats_calls(st, fixed[1], fails) ELSE st, 1>>

streak_startup(checked, s, st, fails, day) ==
  IF ~checked
  THEN LET fixed == check_and_fix_streak(s, day)
       IN  <<fixed[1], IF fixed[2] THEN save_stats_calls(st, fixed[1], fails) ELSE st, 1>>
  ELSE <<s, st, 0>>

\* The rerun that follows a handler which left statistics s and document st.
Rerun(s, st) ==
  LET started == streak_startup(streak_checked, s, st, write_fails, today)
  IN  /\ stats' = started[1]
      /\ store' = started[2]
      /\ streak_checked' = TRUE
      /\ streak_runs' = streak_runs + started[3]

\* save_stats() at the end of a terminal branch of the handler, which left
\* statistics s, then the rerun.
SaveAndRerun(s) == Rerun(s, save_stats_calls(store, s, write_fails))

\* The calendar date changes.
AdvanceDay ==
  /\ ToOrdinal(today) - ToOrdinal(StartDate) < MaxDay
  /\ today' = NextDay(today)
  /\ UNCHANGED <<program, auxVars, rng, store, authenticated, stats, has_seen_help,
                 streak_checked, streak_runs, gameVars, daily_terminals, games, cliVars>>

\* Login (or sign-up, or auto-login), then the rerun: the statistics are loaded
\* and check_and_fix_streak runs once (app.py:250-258).
Login ==
  /\ program = "web" /\ ~authenticated
  /\ Rerun(load_user_stats(store), store)
  /\ authenticated' = TRUE
  /\ has_seen_help' = FALSE
  /\ daily_terminals' = <<>>
  /\ UNCHANGED <<program, auxVars, today, rng, gameVars, games, cliVars>>

\* logout(): every key of session_state is deleted.
Logout ==
  /\ program = "web" /\ authenticated
  /\ authenticated' = FALSE
  /\ stats' = ZeroStats
  /\ has_seen_help' = FALSE
  /\ streak_checked' = FALSE
  /\ streak_runs' = 0
  /\ game_mode' = "None"
  /\ secret_player' = NoPlayer
  /\ guesses' = <<>>
  /\ game_over' = FALSE
  /\ secret_date' = NoDate
  /\ session_log' = <<>>
  /\ in_budget' = FALSE
  /\ daily_terminals' = <<>>
  /\ UNCHANGED <<program, auxVars, today, rng, store, games, cliVars>>

\* "Let's Play!" (app.py:413-417)
LetsPlay ==
  /\ program = "web" /\ authenticated /\ ~has_seen_help
  /\ has_seen_help' = TRUE
  /\ Rerun(stats, store)
  /\ UNCHANGED <<program, auxVars, today, rng, authenticated, gameVars,
                 daily_terminals, games, cliVars>>

\* "Daily Challenge" (app.py:423-425), then the initialisation of app.py:266-280.
ChooseDaily ==
  /\ program = "web" /\ authenticated /\ has_seen_help /\ game_mode = "None"
  /\ Rerun(stats, store)
  /\ game_mode' = "Daily"
  /\ \E pick \in get_random_player(DailyGenerator(rng, today), NPlayers) :
       secret_player' = pick[1]
  /\ rng' = SeedEntropy
  /\ guesses' = <<>>
  /\ game_over' = DailyLocked(stats', today)
  /\ secret_date' = DateStr(today)
  /\ session_log' = <<>>
  /\ in_budget' = (~game_over' /\ games < MaxGames)
  /\ games' = IF in_budget' THEN games + 1 ELSE games
  /\ UNCHANGED <<program, auxVars, today, authenticated, has_seen_help,
                 daily_terminals, cliVars>>

\* "Random Mode" (app.py:427-429), then the initialisation of app.py:281-284.
ChooseRandom ==
  /\ program = "web" /\ authenticated /\ has_seen_help /\ game_mode = "None"
  /\ Rerun(stats, store)
  /\ game_mode' = "Random"
  /\ \E pick \in get_random_player(rng, NPlayers) :
       /\ secret_player' = pick[1]
       /\ rng' = pick[2]
  /\ guesses' = <<>>
  /\ game_over' = FALSE
  /\ secret_date' = NoDate
  /\ session_log' = <<>>
  /\ in_budget' = (games < MaxGames)
  /\ games' = IF in_budget' THEN games + 1 ELSE games
  /\ UNCHANGED <<program, auxVars, today, authenticated, has_seen_help,
                 daily_terminals, cliVars>>

\* update_search_results: the selectbox callback, for the option `selected`.
\* The callback is taken to arrive whenever a game session is shown, the
\* widget's disabled flag notwithstanding: the handler's own tests decide.
\* (in_budget bounds the run: sessions past the budget accept no guess.)
update_search_results(selected) ==
  /\ program = "web" /\ authenticated /\ game_mode # "None"
  /\ IF Accepted(selected, game_over, guesses)
     THEN LET gp   == Resolve(selected)
              gs   == Append(guesses, gp)
              mode == ModeKey(game_mode)
          IN  /\ in_budget
              /\ guesses' = gs
              /\ IF IsWin(gp, secret_player)
                 THEN /\ game_over' = TRUE
                      /\ SaveAndRerun(RecordWin(stats, mode, Len(gs), today))
                      /\ session_log' = session_log \o <<"update", "save">>
                      /\ daily_terminals' = IF mode = "daily"
                                            THEN Append(daily_terminals, DateStr(today))
                                            ELSE daily_terminals
                 ELSE IF IsLoss(gs)
                 THEN /\ game_over' = TRUE
                      /\ SaveAndRerun(RecordLoss(stats, mode, today))
                      /\ session_log' = session_log \o <<"update", "save">>
                      /\ daily_terminals' = IF mode = "daily"
                                            THEN Append(daily_terminals, DateStr(today))
                                            ELSE daily_terminals
                 ELSE /\ Rerun(stats, store)
                      /\ UNCHANGED <<game_over, session_log, daily_terminals>>
              /\ rng' = SampleDraw(rng)
     ELSE /\ Rerun(stats, store)
          /\ UNCHANGED <<guesses, game_over, session_log, daily_terminals, rng>>
  /\ UNCHANGED <<program, auxVars, today, authenticated, has_seen_help, game_mode,
                 secret_player, secret_date, games, in_budget, cliVars>>

SubmitGuess == \E selected \in Selections(guesses, secret_player) :
                 update_search_results(selected)

\* reset_to_menu(): the game keys are deleted.
reset_to_menu ==
  /\ game_mode' = "None"
  /\ secret_player' = NoPlayer
  /\ guesses' = <<>>
  /\ game_over' = FALSE
  /\ secret_date' = NoDate
  /\ session_log' = <<>>
  /\ in_budget' = FALSE
  /\ Rerun(stats, store)
  /\ UNCHANGED <<program, auxVars, today, rng, authenticated, has_seen_help,
                 daily_terminals, games, cliVars>>

\* "Menu": shown under the Daily lock (app.py:442) and in the game-over panel
\* (app.py:573).
Menu ==
  /\ program = "web" /\ authenticated /\ game_mode # "None"
  /\ (game_mode = "Daily" /\ DailyLocked(stats, today)) \/ game_over
  /\ reset_to_menu

\* "Next Round" in a Daily session (app.py:575-577): back to the menu.
NextRoundDaily ==
  /\ program = "web" /\ authenticated /\ game_mode = "Daily"
  /\ ~DailyLocked(stats, today) /\ game_over
  /\ reset_to_menu

\* "Next Round" in a Random session: play_another_random().
play_another_random ==
  /\ program = "web" /\ authenticated /\ game_mode = "Random"
  /\ game_over
  /\ \E pick \in get_random_player(rng, NPlayers) :
       /\ secret_player' = pick[1]
       /\ rng' = pick[2]
  /\ guesses' = <<>>
  /\ game_over' = FALSE
  /\ session_log' = <<>>
  /\ in_budget' = (games < MaxGames)
  /\ games' = IF in_budget' THEN games + 1 ELSE games
  /\ Rerun(stats, store)
  /\ UNCHANGED <<program, auxVars, today, authenticated, has_seen_help,
                 game_mode, secret_date, daily_terminals, cliVars>>

(***************************************************************************)
(* The command-line game (main.py play_game): one pass of the while loop   *)
(* for the player find_player_by_name resolved (NoPlayer: no match), with  *)
(* the code after the loop when the pass leaves it.                        *)
(***************************************************************************)
\* Mutant: the loop also runs a pass with no attempt left.
LoopContinues_AtZero(a) == a >= 0

\* The loop condition (main.py:14).
LoopContinues(a) == a > 0

play_game_step(guessed) ==
  /\ program = "cli" /\ cli_pc = "loop" /\ LoopContinues(attempts)
  /\ IF guessed = NoPlayer
     THEN UNCHANGED <<attempts, cli_pc, cli_out, cli_guessed, cli_misses>>
     ELSE /\ cli_guessed' = cli_guessed \cup {guessed}
          /\ IF IsWin(guessed, cli_secret)
             THEN /\ cli_out' = (cli_out \cup {"GOAL"})
                                  \cup (IF attempts = 0 THEN {"OUT OF TIME"} ELSE {})
                  /\ cli_pc' = "done"
                  /\ UNCHANGED <<attempts, cli_misses>>
             ELSE /\ attempts' = attempts - 1
                  /\ cli_misses' = cli_misses + 1
                  /\ IF LoopContinues(attempts')
                     THEN UNCHANGED <<cli_pc, cli_out>>
                     ELSE /\ cli_pc' = "done"
                          /\ cli_out' = cli_out \cup (IF attempts' = 0 THEN {"OUT OF TIME"}
                                                      ELSE {})
  /\ UNCHANGED <<program, auxVars, webVars, cli_secret>>

CliGuess == \E guessed \in PlayerIdx \cup {NoPlayer} : play_game_step(guessed)

Next ==
  \/ AdvanceDay
  \/ Login
  \/ Logout
  \/ LetsPlay
  \/ ChooseDaily
  \/ ChooseRandom
  \/ SubmitGuess
  \/ Menu
  \/ NextRoundDaily
  \/ play_another_random
  \/ CliGuess

Spec == Init /\ [][Next]_vars

(***************************************************************************)
(* The app with a statistics store whose writes may fail: at any time the  *)
(* update of either mode's record may start or stop raising.  The         *)
(* calendar date stays the same.                                           *)
(***************************************************************************)
StoreFault ==
  /\ program = "web"
  /\ \E fails \in SUBSET Modes : fails # write_fails /\ write_fails' = fails
  /\ UNCHANGED <<program, webVars, cliVars, fbVars, tabVars, libVars>>

\* One app session on one calendar date.
InitOutage == Init /\ program = "web"

NextOutage ==
  \/ Login
  \/ LetsPlay
  \/ ChooseDaily
  \/ ChooseRandom
  \/ SubmitGuess
  \/ Menu
  \/ play_another_random
  \/ Logout
  \/ StoreFault

SpecOutage == InitOutage /\ [][NextOutage]_vars

(***************************************************************************)
(* The evaluators on their own: any guess and secret of Entities, the grid *)
(* row rendered and the feedback block printed.                            *)
(***************************************************************************)
\* No app session and no command-line game is running.
SessionIdle ==
  /\ today = StartDate
  /\ rng = SeedEntropy
  /\ store = StoredDefaults
  /\ authenticated = FALSE
  /\ stats = ZeroStats
  /\ has_seen_help = FALSE
  /\ streak_checked = FALSE
  /\ streak_runs = 0
  /\ game_mode = "None"
  /\ secret_player = NoPlayer
  /\ guesses = <<>>
  /\ game_over = FALSE
  /\ secret_date = NoDate
  /\ session_log = <<>>
  /\ daily_terminals = <<>>
  /\ games = 0
  /\ in_budget = FALSE
  /\ cli_secret = NoPlayer
  /\ attempts = 0
  /\ cli_pc = "off"
  /\ cli_out = {}
  /\ cli_guessed = {}
  /\ cli_misses = 0

InitFeedback ==
  /\ program = "feedback"
  /\ SessionIdle
  /\ fb_guess \in Entities
  /\ fb_secret \in Entities
  /\ fb_web = NoFeedback
  /\ fb_cli = NoFeedback
  /\ write_fails = {}
  /\ TabsIdle
  /\ LibIdle

\* app.py:580-603: the grid row of the guess is rendered.
RenderGrid ==
  /\ program = "feedback" /\ fb_web = NoFeedback
  /\ fb_web' = GridRow(fb_guess, fb_secret)
  /\ UNCHANGED <<program, webVars, cliVars, fb_guess, fb_secret, fb_cli, write_fails, tabVars,
                 libVars>>

\* main.py:27 print(get_feedback(guessed_player, secret_player))
PrintFeedback ==
  /\ program = "feedback" /\ fb_cli = NoFeedback
  /\ fb_cli' = get_feedback(fb_guess, fb_secret)
  /\ UNCHANGED <<program, webVars, cliVars, fb_guess, fb_secret, fb_web, write_fails, tabVars,
                 libVars>>

NextFeedback ==
  \/ RenderGrid
  \/ PrintFeedback

SpecFeedback == InitFeedback /\ [][NextFeedback]_vars

(***************************************************************************)
(* App sessions side by side.  Each script run is a thread of the server   *)
(* process, so the three statements of the Daily initialisation            *)
(* (app.py:271-273) of one session interleave with the draws of another:   *)
(* SpecDraws takes them one by one, with the other draws on the shared     *)
(* generator.  SpecTabs takes every handler as one step and follows the    *)
(* Daily games and the stored statistics.  The calendar date stays the     *)
(* same.                                                                   *)
(***************************************************************************)
soloVars == <<authenticated, stats, has_seen_help, streak_checked, streak_runs, gameVars,
              daily_terminals, games>>

restVars == <<program, today, soloVars, cliVars, fbVars, write_fails, libVars>>

InitTabs ==
  /\ program = "tabs"
  /\ SessionIdle
  /\ FeedbackIdle
  /\ write_fails = {}
  /\ TabsIdle
  /\ LibIdle

\* A draw by a feature other than the Daily secret, made on generator r after
\* some Daily initialisation: it uses a state derived from the date seed.
LeakedBy(r) == daily_inited /\ r.kind = "seeded"

\* The session logs in (or auto-logs in after a page load): app.py:219-258.
TabOpen(t) ==
  /\ program = "tabs" /\ tab_pc[t] = "closed"
  /\ LET fixed == check_and_fix_streak(load_user_stats(store), today)
     IN  /\ tab_stats' = [tab_stats EXCEPT ![t] = fixed[1]]
         /\ store' = IF fixed[2] THEN save_stats_calls(store, fixed[1], write_fails)
                     ELSE store
  /\ tab_pc' = [tab_pc EXCEPT ![t] = "menu"]
  /\ UNCHANGED <<restVars, rng, tab_mode, tab_secret, tab_guesses, tab_over, tab_budget,
                 tab_games, daily_inited, seed_leaked, day_terminals, day_guesses>>

\* logout(), or the page is reloaded or closed: the session_state is gone.
TabClose(t) ==
  /\ program = "tabs" /\ tab_pc[t] \in {"menu", "game"}
  /\ tab_pc' = [tab_pc EXCEPT ![t] = "closed"]
  /\ tab_stats' = [tab_stats EXCEPT ![t] = ZeroStats]
  /\ tab_mode' = [tab_mode EXCEPT ![t] = "None"]
  /\ tab_secret' = [tab_secret EXCEPT ![t] = NoPlayer]
  /\ tab_guesses' = [tab_guesses EXCEPT ![t] = <<>>]
  /\ tab_over' = [tab_over EXCEPT ![t] = FALSE]
  /\ tab_budget' = [tab_budget EXCEPT ![t] = FALSE]
  /\ UNCHANGED <<restVars, rng, store, tab_games, daily_inited, seed_leaked,
                 day_terminals, day_guesses>>

\* "Daily Challenge", then app.py:271 random.seed(date.today().toordinal()).
TabSeed(t) ==
  /\ program = "tabs" /\ tab_pc[t] = "menu"
  /\ tab_mode' = [tab_mode EXCEPT ![t] = "Daily"]
  /\ rng' = DailyGenerator(rng, today)
  /\ tab_pc' = [tab_pc EXCEPT ![t] = "seeded"]
  /\ UNCHANGED <<restVars, store, tab_stats, tab_secret, tab_guesses, tab_over, tab_budget,
                 tab_games, daily_inited, seed_leaked, day_terminals, day_guesses>>

\* app.py:272 secret_player = get_random_player(players), on the generator as it is now.
TabChoice(t) ==
  /\ program = "tabs" /\ tab_pc[t] = "seeded"
  /\ \E pick \in get_random_player(rng, NPlayers) :
       /\ tab_secret' = [tab_secret EXCEPT ![t] = pick[1]]
       /\ rng' = pick[2]
  /\ tab_pc' = [tab_pc EXCEPT ![t] = "chosen"]
  /\ UNCHANGED <<restVars, store, tab_stats, tab_mode, tab_guesses, tab_over, tab_budget,
                 tab_games, daily_inited, seed_leaked, day_terminals, day_guesses>>

\* app.py:273-280 random.seed(), then the lock test and the empty guess list.
TabReseed(t) ==
  /\ program = "tabs" /\ tab_pc[t] = "chosen"
  /\ rng' = SeedEntropy
  /\ tab_over' = [tab_over EXCEPT ![t] = DailyLocked(tab_stats[t], today)]
  /\ tab_guesses' = [tab_guesses EXCEPT ![t] = <<>>]
  /\ tab_budget' = [tab_budget EXCEPT ![t] = ~tab_over'[t] /\ tab_games < MaxTabGames]
  /\ tab_games' = IF tab_budget'[t] THEN tab_games + 1 ELSE tab_games
  /\ tab_pc' = [tab_pc EXCEPT ![t] = "game"]
  /\ daily_inited' = TRUE
  /\ UNCHANGED <<restVars, store, tab_stats, tab_mode, tab_secret, seed_leaked,
                 day_terminals, day_guesses>>

\* "Daily Challenge" with the initialisation of app.py:266-280 as one step.
TabDaily(t) ==
  /\ program = "tabs" /\ tab_pc[t] = "menu"
  /\ tab_mode' = [tab_mode EXCEPT ![t] = "Daily"]
  /\ \E pick \in get_random_player(DailyGenerator(rng, today), NPlayers) :
       tab_secret' = [tab_secret EXCEPT ![t] = pick[1]]
  /\ rng' = SeedEntropy
  /\ tab_over' = [tab_over EXCEPT ![t] = DailyLocked(tab_stats[t], today)]
  /\ tab_guesses' = [tab_guesses EXCEPT ![t] = <<>>]
  /\ tab_budget' = [tab_budget EXCEPT ![t] = ~tab_over'[t] /\ tab_games < MaxTabGames]
  /\ tab_games' = IF tab_budget'[t] THEN tab_games + 1 ELSE tab_games
  /\ tab_pc' = [tab_pc EXCEPT ![t] = "game"]
  /\ daily_inited' = TRUE
  /\ UNCHANGED <<restVars, store, tab_stats, seed_leaked, day_terminals, day_guesses>>

\* A search term is typed in session t: app.py:506-519 shuffle or sample the
\* players for the result list.
TabSample(t) ==
  /\ program = "tabs" /\ tab_pc[t] = "game" /\ ~tab_over[t]
  /\ rng.draws < MaxDraws
  /\ seed_leaked' = (seed_leaked \/ LeakedBy(rng))
  /\ rng' = SampleDraw(rng)
  /\ UNCHANGED <<restVars, store, tab_pc, tab_stats, tab_mode, tab_secret, tab_guesses,
                 tab_over, tab_budget, tab_games, daily_inited, day_terminals, day_guesses>>

\* "Random Mode", then app.py:281-284.
TabRandom(t) ==
  /\ program = "tabs" /\ tab_pc[t] = "menu"
  /\ rng.draws < MaxDraws
  /\ tab_mode' = [tab_mode EXCEPT ![t] = "Random"]
  /\ \E pick \in get_random_player(rng, NPlayers) :
       /\ tab_secret' = [tab_secret EXCEPT ![t] = pick[1]]
       /\ rng' = pick[2]
  /\ seed_leaked' = (seed_leaked \/ LeakedBy(rng))
  /\ tab_guesses' = [tab_guesses EXCEPT ![t] = <<>>]
  /\ tab_over' = [tab_over EXCEPT ![t] = FALSE]
  /\ tab_budget' = [tab_budget EXCEPT ![t] = tab_games < MaxTabGames]
  /\ tab_games' = IF tab_budget'[t] THEN tab_games + 1 ELSE tab_games
  /\ tab_pc' = [tab_pc EXCEPT ![t] = "game"]
  /\ UNCHANGED <<restVars, store, tab_stats, daily_inited, day_terminals, day_guesses>>

\* update_search_results in session t, for the option `selected`.
TabGuess(t, selected) ==
  /\ program = "tabs" /\ tab_pc[t] = "game"
  /\ Accepted(selected, tab_over[t], tab_guesses[t])
  /\ tab_budget[t]
  /\ LET gp    == Resolve(selected)
         gs    == Append(tab_guesses[t], gp)
         mode  == ModeKey(tab_mode[t])
         win   == IsWin(gp, tab_secret[t])
         ended == win \/ IsLoss(gs)
         after == IF win THEN RecordWin(tab_stats[t], mode, Len(gs), today)
                  ELSE IF IsLoss(gs) THEN RecordLoss(tab_stats[t], mode, today)
                  ELSE tab_stats[t]
     IN  /\ tab_guesses' = [tab_guesses EXCEPT ![t] = gs]
         /\ tab_over' = [tab_over EXCEPT ![t] = ended]
         /\ tab_stats' = [tab_stats EXCEPT ![t] = after]
         /\ store' = IF ended THEN save_stats_calls(store, after, write_fails) ELSE store
         /\ day_guesses' = IF mode = "daily" THEN day_guesses + 1 ELSE day_guesses
         /\ day_terminals' = IF mode = "daily" /\ ended THEN day_terminals + 1
                             ELSE day_terminals
  /\ seed_leaked' = (seed_leaked \/ LeakedBy(rng))
  /\ rng' = SampleDraw(rng)
  /\ UNCHANGED <<restVars, tab_pc, tab_mode, tab_secret, tab_budget, tab_games, daily_inited>>

\* "Menu" in session t (app.py:442, app.py:573): reset_to_menu().
TabMenu(t) ==
  /\ program = "tabs" /\ tab_pc[t] = "game"
  /\ (tab_mode[t] = "Daily" /\ DailyLocked(tab_stats[t], today)) \/ tab_over[t]
  /\ tab_pc' = [tab_pc EXCEPT ![t] = "menu"]
  /\ tab_mode' = [tab_mode EXCEPT ![t] = "None"]
  /\ tab_secret' = [tab_secret EXCEPT ![t] = NoPlayer]
  /\ tab_guesses' = [tab_guesses EXCEPT ![t] = <<>>]
  /\ tab_over' = [tab_over EXCEPT ![t] = FALSE]
  /\ tab_budget' = [tab_budget EXCEPT ![t] = FALSE]
  /\ UNCHANGED <<restVars, rng, store, tab_stats, tab_games, daily_inited, seed_leaked,
                 day_terminals, day_guesses>>

OpenTab == \E t \in Tabs : TabOpen(t)

CloseTab == \E t \in Tabs : TabClose(t)

DailySeedStep == \E t \in Tabs : TabSeed(t)

DailyChoiceStep == \E t \in Tabs : TabChoice(t)

DailyReseedStep == \E t \in Tabs : TabReseed(t)

RandomInit == \E t \in Tabs : TabRandom(t)

\* The options picked in these sessions: the secret's name, or the first player
\* (dataset order) that is neither guessed nor the secret.
TabSelections(gs, secret) ==
  {Players[i].name : i \in {secret} \cap PlayerIdx}
    \cup {Players[i].name : i \in {k \in Fresh(gs, secret) :
                 \A j \in Fresh(gs, secret) : k <= j}}

GuessInTab ==
  \E t \in Tabs : \E selected \in TabSelections(tab_guesses[t], tab_secret[t]) :
    TabGuess(t, selected)

DailyInit == \E t \in Tabs : TabDaily(t)

SearchSample == \E t \in Tabs : TabSample(t)

MenuInTab == \E t \in Tabs : TabMenu(t)

NextDraws ==
  \/ OpenTab
  \/ CloseTab
  \/ DailySeedStep
  \/ DailyChoiceStep
  \/ DailyReseedStep
  \/ RandomInit
  \/ SearchSample

SpecDraws == InitTabs /\ [][NextDraws]_vars

NextTabs ==
  \/ OpenTab
  \/ CloseTab
  \/ DailyInit
  \/ GuessInTab
  \/ MenuInTab

SpecTabs == InitTabs /\ [][NextTabs]_vars

(***************************************************************************)
(* Vocabulary of the properties.                                           *)
(***************************************************************************)
InGame == program = "web" /\ authenticated /\ game_mode # "None"

NameOf(i) == Players[i].name

\* app.py:435 is_win: the last guess has the secret's name.
LastGuessIsSecret ==
  guesses # <<>> /\ NameOf(guesses[Len(guesses)]) = NameOf(secret_player)

\* A step of the web session that appends a guess.
GuessAccepted == program = "web" /\ Len(guesses') = Len(guesses) + 1

Won == InGame /\ game_over /\ LastGuessIsSecret

Lost == InGame /\ game_over /\ guesses # <<>> /\ ~LastGuessIsSecret

\* A step of the selectbox callback, whatever option it carries.
AnySubmission == \E selected \in PlayerNames \cup Placeholders : update_search_results(selected)

\* No statistics of either mode change and nothing reaches the store.
StatsUntouched == stats' = stats /\ store' = store /\ session_log' = session_log

(***************************************************************************)
(* C1: a terminal state of the web session is absorbing.  Six non-winning  *)
(* guesses end the session (game_over), and once game_over holds a guess   *)
(* submission, whatever option it carries, leaves guesses, game_over and   *)
(* the statistics of both modes as they were.                              *)
(***************************************************************************)
C1_TerminalAbsorbing ==
  /\ [](InGame /\ Len(guesses) = MaxGuesses => game_over)
  /\ [][\/ ~game_over
        \/ (guesses' = guesses /\ game_over' /\ stats' = stats)
        \/ ~AnySubmission]_vars

\* A session lost with six guesses, on which further submissions arrive.
C1_Witness ==
  Lost /\ Len(guesses) = MaxGuesses /\ ENABLED SubmitGuess

(***************************************************************************)
(* C2: the outcome of an accepted guess.  Won exactly when the guessed     *)
(* name is the secret's name, else Lost when it was guess number 6, else   *)
(* still in progress; in the web session and in the command-line loop.     *)
(***************************************************************************)
C2_WebOutcome ==
  GuessAccepted =>
    LET mode == ModeKey(game_mode)
        last == guesses'[Len(guesses')]
    IN  IF NameOf(last) = NameOf(secret_player)
        THEN /\ game_over'
             /\ stats'[mode].won = stats[mode].won + 1
             /\ stats'[mode].played = stats[mode].played + 1
        ELSE IF Len(guesses') = 6
        THEN /\ game_over'
             /\ stats'[mode].won = stats[mode].won
             /\ stats'[mode].played = stats[mode].played + 1
        ELSE /\ ~game_over'
             /\ stats' = stats

C2_CliOutcome ==
  \A guessed \in PlayerIdx :
    play_game_step(guessed) =>
      IF NameOf(guessed) = NameOf(cli_secret)
      THEN cli_pc' = "done" /\ cli_out' = {"GOAL"}
      ELSE IF attempts = 1
      THEN cli_pc' = "done" /\ cli_out' = {"OUT OF TIME"}
      ELSE cli_pc' = "loop" /\ cli_out' = {}

C2_OutcomeByName == [][C2_WebOutcome /\ C2_CliOutcome]_vars

\* The secret guessed as guess number 6 of a web session: Won.
C2_Witness ==
  Won /\ Len(guesses) = 6 /\ stats[ModeKey(game_mode)].won >= 1

(***************************************************************************)
(* C3: guesses never holds more than 6 entries, and no two entries have    *)
(* the same name.                                                          *)
(***************************************************************************)
C3_GuessesBounded ==
  /\ Len(guesses) <= 6
  /\ \A i, j \in DOMAIN guesses : i # j => NameOf(guesses[i]) # NameOf(guesses[j])

\* A full list of six distinct guesses.
C3_Witness == InGame /\ Len(guesses) = 6

(***************************************************************************)
(* C4: the secret's name accepted as guess number k changes the session's  *)
(* mode statistics by exactly played +1, won +1, current_streak +1 and     *)
(* distribution[k] +1, every other bucket as it was.                       *)
(***************************************************************************)
C4_WinUpdate ==
  [][(GuessAccepted /\ NameOf(guesses'[Len(guesses')]) = NameOf(secret_player)) =>
       LET m == ModeKey(game_mode)
           k == Len(guesses')
       IN  /\ stats'[m].played = stats[m].played + 1
           /\ stats'[m].won = stats[m].won + 1
           /\ stats'[m].current_streak = stats[m].current_streak + 1
           /\ DOMAIN stats'[m].distribution = 1..6
           /\ \A j \in 1..6 :
                stats'[m].distribution[j] =
                  stats[m].distribution[j] + (IF j = k THEN 1 ELSE 0)]_vars

\* A Daily session of the returning user won on guess 2: bucket 2 went from 1 to 2.
C4_Witness ==
  Won /\ game_mode = "Daily" /\ Len(guesses) = 2 /\ stats["daily"].distribution[2] = 2

(***************************************************************************)
(* C5: a game session that reaches Won or Lost updates the statistics of   *)
(* its own mode exactly once (played +1) and then asks for one save, which *)
(* stores the updated statistics; no later step of that game session       *)
(* updates or saves again.                                                 *)
(***************************************************************************)
C5_LogShape ==
  InGame => session_log = (IF game_over /\ guesses # <<>> THEN <<"update", "save">> ELSE <<>>)

C5_TerminalStep ==
  (GuessAccepted /\ game_over') =>
     LET m     == ModeKey(game_mode)
         other == CHOOSE o \in Modes : o # m
     IN  /\ stats'[m].played = stats[m].played + 1
         /\ stats'[other] = stats[other]
         /\ \A o \in Modes : store'[o] = StoredForm(stats'[o])
         /\ session_log' = <<"update", "save">>

C5_AfterTerminal ==
  (InGame /\ game_over /\ authenticated') =>
     /\ stats' = stats
     /\ store' = store
     /\ (game_mode' = game_mode /\ game_over') => session_log' = session_log

C5_OneUpdateThenSave ==
  /\ []C5_LogShape
  /\ [][C5_TerminalStep /\ C5_AfterTerminal]_vars

\* A Random session lost: updated once, saved once, the store holds the update.
C5_Witness ==
  /\ Lost /\ game_mode = "Random" /\ session_log = <<"update", "save">>
  /\ store["random"].played = stats["random"].played
  /\ ENABLED SubmitGuess

(***************************************************************************)
(* C6: a Lost transition sets current_streak to 0 and leaves max_streak,   *)
(* won and every distribution bucket as they were; a Won transition in     *)
(* Daily mode whose current_streak exceeds the previous max_streak sets    *)
(* max_streak to current_streak, and otherwise max_streak is unchanged.    *)
(***************************************************************************)
C6_Streaks ==
  [][(GuessAccepted /\ game_over') =>
       LET m == ModeKey(game_mode)
       IN  IF NameOf(guesses'[Len(guesses')]) = NameOf(secret_player)
           THEN IF m = "daily" /\ stats'["daily"].current_streak > stats["daily"].max_streak
                THEN stats'["daily"].max_streak = stats'["daily"].current_streak
                ELSE stats'["daily"].max_streak = stats["daily"].max_streak
           ELSE /\ stats'[m].current_streak = 0
                /\ stats'["daily"].max_streak = stats["daily"].max_streak
                /\ stats'[m].won = stats[m].won
                /\ stats'[m].distribution = stats[m].distribution]_vars

\* The returning user (streak 1, best 2) wins a Daily session: streak 2, best still 2.
C6_Witness ==
  /\ Won /\ game_mode = "Daily"
  /\ stats["daily"].won = 4
  /\ stats["daily"].current_streak = 2
  /\ stats["daily"].max_streak = 2

(***************************************************************************)
(* C7: for the Daily statistics current_streak <= max_streak, in memory    *)
(* and in the store, after any wins, losses and streak reconciliations.    *)
(***************************************************************************)
C7_StreakBelowMax ==
  /\ stats["daily"].current_streak <= stats["daily"].max_streak
  /\ store["daily"].current_streak <= store["daily"].max_streak

\* The returning user after a reconciliation (no session lost since): streak 0, best 2.
C7_Witness ==
  /\ program = "web" /\ authenticated
  /\ stats["daily"].played = 4
  /\ stats["daily"].current_streak = 0
  /\ stats["daily"].max_streak = 2

(***************************************************************************)
(* C8: within one app session at most one Daily terminal update is         *)
(* recorded per calendar date.  Choosing Daily while last_played_date is   *)
(* today's date gives a locked session (game_over, no guesses) in which no *)
(* guess is accepted and no statistics change; a Daily session shown while *)
(* last_played_date is today's date is always over.                        *)
(***************************************************************************)
PlayedToday == stats["daily"].last_played_date = DateStr(today)

LockedSession == InGame /\ game_mode = "Daily" /\ game_over /\ guesses = <<>>

C8_OnePerDate ==
  \A i, j \in DOMAIN daily_terminals : i # j => daily_terminals[i] # daily_terminals[j]

C8_LockHeld == (InGame /\ game_mode = "Daily" /\ PlayedToday) => game_over

C8_LockedInit ==
  (program = "web" /\ game_mode = "None" /\ game_mode' = "Daily" /\ PlayedToday)
     => (game_over' /\ guesses' = <<>>)

C8_TerminalOnFreshDate ==
  (authenticated /\ authenticated' /\ stats'["daily"].played # stats["daily"].played)
     => ~PlayedToday

C8_LockedFrozen ==
  (LockedSession /\ authenticated' /\ game_mode' = game_mode)
     => (guesses' = <<>> /\ game_over' /\ stats' = stats /\ store' = store)

C8_DailyOncePerDate ==
  /\ [](C8_OnePerDate /\ C8_LockHeld)
  /\ [][C8_LockedInit /\ C8_TerminalOnFreshDate /\ C8_LockedFrozen]_vars

\* Daily chosen again on the date whose Daily session this app session finished.
C8_Witness ==
  LockedSession /\ PlayedToday /\ daily_terminals = <<DateStr(today)>> /\ ENABLED SubmitGuess

(***************************************************************************)
(* C9: the Daily secret is a function of the calendar date and the dataset *)
(* order alone: every Daily session holds the first draw of a generator    *)
(* seeded with the ordinal of the date it was initialised on, whatever the *)
(* global generator held before.                                           *)
(***************************************************************************)
C9_DailySecretByDate ==
  (InGame /\ game_mode = "Daily")
     => secret_player = SeededIndex(ToOrdinal(ParseDate(secret_date)), 0, NPlayers)

\* A second Daily initialisation on StartDate, after the first one was played
\* to its end in this app session.
C9_Witness ==
  /\ InGame /\ game_mode = "Daily" /\ today = StartDate
  /\ daily_terminals = <<DateStr(StartDate)>>
  /\ guesses = <<>>

(***************************************************************************)
(* C10: a submitted name that already appears in guesses is rejected:      *)
(* guesses, game_over and the statistics of both modes stay as they were   *)
(* and nothing is saved.                                                   *)
(***************************************************************************)
GuessedNames == {NameOf(guesses[i]) : i \in DOMAIN guesses}

C10_DuplicateRejected ==
  [][\/ (guesses' = guesses /\ game_over' = game_over /\ StatsUntouched)
     \/ ~(\E selected \in GuessedNames : update_search_results(selected))]_vars

\* A session in progress with two guesses: either name may be submitted again.
C10_Witness ==
  InGame /\ ~game_over /\ Len(guesses) >= 2 /\ ENABLED SubmitGuess

(***************************************************************************)
(* C11: a guess that resolves to no dataset entity changes no game state.  *)
(* In the web session a selected value that is no player's name (the       *)
(* placeholder options included) leaves guesses, game_over and the         *)
(* statistics as they were; in the command-line loop a guess for which     *)
(* find_player_by_name returns None leaves attempts as it was and the loop *)
(* goes on.                                                                *)
(***************************************************************************)
NotAName == (Placeholders \cup {"Type to search...", "Nobody"}) \ PlayerNames

C11_UnresolvedRejected ==
  /\ [][\/ (guesses' = guesses /\ game_over' = game_over /\ StatsUntouched)
        \/ ~(\E selected \in NotAName : update_search_results(selected))]_vars
  /\ [][\/ (attempts' = attempts /\ cli_pc' = "loop" /\ cli_out' = cli_out)
        \/ ~play_game_step(NoPlayer)]_vars

\* A session in progress with one guess made, the placeholder among its options.
C11_Witness ==
  /\ InGame /\ ~game_over /\ in_budget /\ Len(guesses) = 1
  /\ "Select a player..." \in Selections(guesses, secret_player)
  /\ IsSelection("Select a player...")

AgeGap == IF fb_guess.age >= fb_secret.age THEN fb_guess.age - fb_secret.age
          ELSE fb_secret.age - fb_guess.age

C13_AgeTier ==
  /\ fb_web # NoFeedback =>
       /\ (fb_web.age = "#28a745") <=> (AgeGap = 0)
       /\ (fb_web.age = "#ffc107") <=> (AgeGap \in {1, 2})
       /\ (fb_web.age = "#dc3545") <=> (AgeGap > 2)
  /\ fb_cli # NoFeedback =>
       /\ (fb_cli.age = "GREEN") <=> (AgeGap = 0)
       /\ (fb_cli.age = "YELLOW") <=> (AgeGap \in {1, 2})
       /\ (fb_cli.age = "PLAIN") <=> (AgeGap > 2)

\* Ages two years apart, both evaluators applied.
C13_Witness ==
  /\ fb_web # NoFeedback /\ fb_cli # NoFeedback
  /\ AgeGap = 2 /\ fb_web.age = "#ffc107" /\ fb_cli.age = "YELLOW"

(***************************************************************************)
(* C14: the direction reported is SecretHigher (up arrow) iff the guess's  *)
(* age is below the secret's, SecretLower (down arrow) iff it is above,    *)
(* and Equal (no arrow) iff the ages are equal, also when the age tier is  *)
(* None, in the web grid and in get_feedback.                              *)
(***************************************************************************)
C14_Direction ==
  /\ fb_web # NoFeedback =>
       /\ (fb_web.arrow = "up") <=> (fb_guess.age < fb_secret.age)
       /\ (fb_web.arrow = "down") <=> (fb_guess.age > fb_secret.age)
       /\ (fb_web.arrow = "") <=> (fb_guess.age = fb_secret.age)
  /\ fb_cli # NoFeedback =>
       /\ (fb_cli.arrow = "up") <=> (fb_guess.age < fb_secret.age)
       /\ (fb_cli.arrow = "down") <=> (fb_guess.age > fb_secret.age)
       /\ (fb_cli.arrow = "") <=> (fb_guess.age = fb_secret.age)

\* The guess more than two years older than the secret: tier None, arrow down.
C14_Witness ==
  /\ fb_web # NoFeedback /\ fb_cli # NoFeedback
  /\ fb_guess.age > fb_secret.age + 2
  /\ fb_web.age = "#dc3545" /\ fb_web.arrow = "down"
  /\ fb_cli.age = "PLAIN" /\ fb_cli.arrow = "down"

(***************************************************************************)
(* C15: streak reconciliation, run when a session loads its statistics,    *)
(* sets the Daily current_streak to 0 and saves exactly when               *)
(* last_played_date is neither today nor yesterday and current_streak is   *)
(* above 0; otherwise it changes and saves nothing; played, won,           *)
(* max_streak, distribution and last_played_date are never changed.        *)
(***************************************************************************)
\* The statistics the session loads, as the store holds them before the step.
Loaded == load_user_stats(store)

StreakIsStale ==
  /\ Loaded["daily"].last_played_date # DateStr(today)
  /\ Loaded["daily"].last_played_date # DateStr(PrevDay(today))
  /\ Loaded["daily"].current_streak > 0

C15_Reconcile ==
  [][(~authenticated /\ authenticated') =>
       IF StreakIsStale
       THEN /\ stats' = [Loaded EXCEPT !["daily"].current_streak = 0]
            /\ store' = [store EXCEPT !["daily"].current_streak = 0]
       ELSE /\ stats' = Loaded
            /\ store' = store]_vars

\* The returning user's streak of 1, last played two days before, was reset and saved.
C15_Witness ==
  /\ authenticated /\ game_mode = "None"
  /\ ToOrdinal(today) = ToOrdinal(StartDate) + 2
  /\ stats["daily"].last_played_date = DateStr(StartDate)
  /\ stats["daily"].played = 4 /\ stats["daily"].max_streak = 2
  /\ stats["daily"].current_streak = 0
  /\ store["daily"].current_streak = 0

(***************************************************************************)
(* C16: a statistics write that fails at a terminal transition neither     *)
(* propagates out of save_stats nor rolls anything back: the step          *)
(* completes, game_over is true and the in-memory statistics hold the      *)
(* terminal update, while the store keeps the failed mode's old record.    *)
(***************************************************************************)
\* A step of the web session that brings it to Won or Lost.
TerminalStep == InGame /\ ~game_over /\ game_over' /\ game_mode' = game_mode

C16_FailedWriteKeepsOutcome ==
  [][(TerminalStep /\ write_fails # {}) =>
       LET mode == ModeKey(game_mode)
       IN  /\ game_over' /\ Len(guesses') = Len(guesses) + 1
           /\ stats'[mode].played = stats[mode].played + 1
           /\ stats' = IF IsWin(guesses'[Len(guesses')], secret_player)
                       THEN RecordWin(stats, mode, Len(guesses'), today)
                       ELSE RecordLoss(stats, mode, today)
           /\ \A m \in write_fails : store'[m] = store[m]
           /\ \A m \in Modes \ write_fails : store'[m] = StoredForm(stats'[m])]_vars

\* A Daily session won while the write of the Daily record failed: the session
\* holds the win, the store does not.
C16_Witness ==
  /\ Won /\ game_mode = "Daily" /\ "daily" \in write_fails
  /\ stats["daily"].last_played_date = DateStr(today)
  /\ store["daily"].last_played_date # DateStr(today)
  /\ store["daily"].played + 1 = stats["daily"].played

(***************************************************************************)
(* C17: when app sessions of one process initialise games side by side on  *)
(* the same date, every Daily session holds the secret a lone session      *)
(* gets for that date (the first draw of a generator seeded with the       *)
(* date's ordinal), whatever the interleaving of the seed, choice and      *)
(* reseed statements with the other sessions' draws.                       *)
(***************************************************************************)
LoneDailySecret == SeededIndex(ToOrdinal(today), 0, NPlayers)

C17_DailySecretUnderInterleaving ==
  \A t \in Tabs :
    (tab_mode[t] = "Daily" /\ tab_pc[t] \in {"chosen", "game"})
      => tab_secret[t] = LoneDailySecret

(***************************************************************************)
(* C18: after a Daily initialisation no later draw of another feature      *)
(* (a Random-mode secret, the search-result sample or shuffle) is made     *)
(* from a generator state derived from the calendar-date seed.             *)
(***************************************************************************)
C18_SeedNeverLeaks == ~seed_leaked

(***************************************************************************)
(* C19: with two app sessions of the same user open, both having loaded    *)
(* the statistics before either finished, at most one of them brings a     *)
(* Daily session for the date to Won or Lost and writes its statistics.    *)
(***************************************************************************)
C19_OneDailyTerminalPerUser == day_terminals <= 1

(***************************************************************************)
(* C20: across logout and re-login, a page reload or a second app session, *)
(* the guesses one user gets evaluated against one date's Daily secret     *)
(* never number more than 6.                                               *)
(***************************************************************************)
C20_SixDailyGuessesPerDate == day_guesses <= MaxGuesses

(***************************************************************************)
(* C21: the streak reconciliation runs exactly once per authenticated app  *)
(* session: on the rerun that authenticates the session, on the statistics *)
(* just loaded, before a game session can be initialised, and never in the *)
(* step of a guess submission.                                             *)
(***************************************************************************)
\* A step of update_search_results that accepted a guess: the only steps
\* that leave a longer guess list.
GuessStep == InGame /\ Len(guesses') = Len(guesses) + 1

C21_StreakCheckOncePerSession ==
  /\ [](authenticated => streak_runs = 1)
  /\ [][ /\ ((streak_runs' # streak_runs /\ authenticated')
               => (/\ ~authenticated
                   /\ stats' = check_and_fix_streak(load_user_stats(store), today)[1]))
        /\ ((game_mode = "None" /\ game_mode' # "None")
               => (streak_checked /\ streak_runs = 1 /\ streak_runs' = 1))
        /\ (GuessStep => (streak_runs' = streak_runs)) ]_vars

\* A session logged in on a later date than its user's last Daily game, with
\* a finished game: the reconciliation ran once and cleared the streak.
C21_Witness ==
  /\ authenticated /\ game_over /\ Len(guesses) > 0
  /\ streak_runs = 1
  /\ stats.daily.played = ReturningUser.daily.played
  /\ stats.daily.last_played_date = DateStr(StartDate)
  /\ stats.daily.current_streak = 0

(***************************************************************************)
(* C22: whenever a Daily win raises current_streak to a value greater      *)
(* than 1, the last_played_date held just before that win is the day       *)
(* before the win, also in an app session kept open across calendar days.  *)
(***************************************************************************)
DailyWinStep ==
  /\ InGame /\ game_mode = "Daily" /\ ~game_over /\ game_over'
  /\ stats'["daily"].won = stats["daily"].won + 1

C22_StreakOverConsecutiveDays ==
  [][ (DailyWinStep /\ stats'["daily"].current_streak > 1)
        => (stats["daily"].last_played_date = DateStr(PrevDay(today))) ]_vars

(***************************************************************************)
(* C23: in the command-line game a guess resolving to a player already     *)
(* guessed in the same game is rejected: the pass changes nothing and      *)
(* consumes no attempt.                                                    *)
(***************************************************************************)
C23_CliDuplicateRejected ==
  [][ \A guessed \in cli_guessed :
        play_game_step(guessed) => UNCHANGED <<attempts, cli_pc, cli_out>> ]_vars

(***************************************************************************)
(* C24: in the command-line game attempts is 6 minus the resolved guesses  *)
(* that missed; the win message is printed iff a resolved guess had the    *)
(* secret's name while attempts > 0, the loss message iff attempts reached *)
(* 0, the game has ended iff one of them was printed, never both.          *)
(***************************************************************************)
C24_CliAttemptsAndOutcome ==
  program = "cli" =>
    /\ attempts = MaxGuesses - cli_misses
    /\ ("GOAL" \in cli_out) <=> (\E guessed \in cli_guessed : IsWin(guessed, cli_secret))
    /\ ("GOAL" \in cli_out) => attempts > 0
    /\ ("OUT OF TIME" \in cli_out) <=> (attempts = 0)
    /\ (cli_pc = "done") <=> (cli_out # {})
    /\ cli_out \in {{}, {"GOAL"}, {"OUT OF TIME"}}

\* A game lost on the sixth miss.
C24_Witness ==
  /\ program = "cli" /\ cli_pc = "done"
  /\ cli_misses = MaxGuesses /\ attempts = 0
  /\ cli_out = {"OUT OF TIME"}

RECURSIVE DistSum(_, _)
DistSum(dist, n) == IF n = 0 THEN 0 ELSE dist[n] + DistSum(dist, n - 1)

WellFormedMode(data) ==
  /\ DOMAIN data.distribution = 1..MaxGuesses
  /\ \A k \in 1..MaxGuesses : data.distribution[k] \in Nat
  /\ DistSum(data.distribution, MaxGuesses) = data.won
  /\ data.won <= data.played
  /\ data.current_streak <= data.won

WellFormed(s) == \A mode \in Modes : WellFormedMode(s[mode])

C26_StatisticsWellFormed ==
  LET loaded == load_user_stats(store)
      saved  == load_user_stats(save_stats(store, stats))
  IN  /\ WellFormed(stats)
      /\ WellFormed(loaded)
      /\ saved = stats
      /\ \A mode \in Modes :
           DOMAIN store[mode].distribution = {StrOfInt(k) : k \in 1..MaxGuesses}

\* A session that loaded statistics an earlier session of the user saved at a
\* Daily terminal.
C26_Witness ==
  /\ program = "web" /\ authenticated /\ daily_terminals = <<>>
  /\ stats["daily"].played = ReturningUser["daily"].played + 1
  /\ stats["daily"].won = ReturningUser["daily"].won + 1
  /\ stats = load_user_stats(store)

(***************************************************************************)
(* C27: in a web game session with game_over set, the last guess has the   *)
(* secret's name, or there are exactly 6 guesses, or the mode is Daily and *)
(* last_played_date is the current date; and the loss result ("You used    *)
(* all 6 guesses") is presented only for a session with 6 guesses.         *)
(***************************************************************************)
\* The branch of the page that presents the loss result (app.py:439, 444,
\* 551-557): not under the Daily lock, game_over set, is_win false.
LossPanelShown ==
  /\ InGame
  /\ ~(game_mode = "Daily" /\ DailyLocked(stats, today))
  /\ game_over
  /\ ~(Len(guesses) > 0 /\ IsWin(guesses[Len(guesses)], secret_player))

C27_GameOverHasCause ==
  /\ (InGame /\ game_over)
       => \/ LastGuessIsSecret
          \/ Len(guesses) = MaxGuesses
          \/ (game_mode = "Daily" /\ stats["daily"].last_played_date = DateStr(today))
  /\ LossPanelShown => Len(guesses) = MaxGuesses

(***************************************************************************)
(* C28: when a Daily session becomes terminal, the date recorded in        *)
(* last_played_date is the date whose seed selected the session's secret,  *)
(* also when the calendar date advanced since the session was created.     *)
(***************************************************************************)
DailyTerminalStep ==
  InGame /\ game_mode = "Daily" /\ ~game_over /\ game_over'

C28_RecordedDateIsSeedDate ==
  [][ DailyTerminalStep => stats'["daily"].last_played_date = secret_date ]_vars

(***************************************************************************)
(* The name search on its own (logics.py find_player_by_name): the query   *)
(* and the names are represented by the similarity score WRatio gives each *)
(* name of player_list, in list order.                                     *)
(***************************************************************************)
\* The acceptance threshold of find_player_by_name.
Threshold == 70

\* Bounds: scores within ScoreSpan of the threshold, lists of up to MaxList names.
ScoreSpan == 2

MaxList == 3

Scores == (Threshold - ScoreSpan)..(Threshold + ScoreSpan)

ScoreLists == UNION {[1..n -> Scores] : n \in 0..MaxList}

\* No match: the None of process.extractOne on an empty list of choices.
NoMatch == [score |-> -1, index |-> NoPlayer]

\* process.extractOne: the first choice among those with the highest score.
extractOne(scores) ==
  IF scores = <<>>
  THEN NoMatch
  ELSE LET index == CHOOSE i \in DOMAIN scores :
                      \A j \in DOMAIN scores :
                        scores[j] < scores[i] \/ (scores[j] = scores[i] /\ i <= j)
       IN  [score |-> scores[index], index |-> index]

\* Mutant: a best score equal to the threshold is accepted.
find_player_by_name_AtThreshold(scores) ==
  LET match == extractOne(scores)
  IN  IF match # NoMatch /\ match.score >= Threshold THEN match.index ELSE NoPlayer

\* find_player_by_name: the position in player_list of the player returned.
find_player_by_name(scores) ==
  LET match == extractOne(scores)
  IN  IF match # NoMatch /\ match.score > Threshold THEN match.index ELSE NoPlayer

InitFind ==
  /\ program = "find"
  /\ SessionIdle
  /\ FeedbackIdle
  /\ write_fails = {}
  /\ TabsIdle
  /\ LibIdle

\* A call of find_player_by_name.
FindPlayer ==
  /\ program = "find"
  /\ \E scores \in ScoreLists :
       /\ find_scores' = scores
       /\ find_result' = find_player_by_name(scores)
  /\ find_pc' = "done"
  /\ UNCHANGED <<program, webVars, cliVars, fbVars, write_fails, tabVars, auth_pc,
                 auth_input, auth_result>>

NextFind == FindPlayer

SpecFind == InitFind /\ [][NextFind]_vars

(***************************************************************************)
(* C29: find_player_by_name returns the player whose name has the highest  *)
(* similarity score exactly when that score is strictly greater than 70;   *)
(* with a best score of 70 or less, or an empty player list, it returns no *)
(* player.                                                                 *)
(***************************************************************************)
BestScore == CHOOSE s \in {find_scores[i] : i \in DOMAIN find_scores} :
               \A i \in DOMAIN find_scores : find_scores[i] <= s

C29_BestMatchAboveThreshold ==
  find_pc = "done" =>
    /\ find_result # NoPlayer <=> (find_scores # <<>> /\ BestScore > 70)
    /\ find_result # NoPlayer
         => /\ find_result \in DOMAIN find_scores
            /\ find_scores[find_result] = BestScore
    /\ (find_scores = <<>> \/ BestScore <= 70) => find_result = NoPlayer

\* A search whose best score is exactly 70 among several names.
C29_Witness ==
  /\ find_pc = "done"
  /\ Len(find_scores) > 1
  /\ BestScore = 70
  /\ find_result = NoPlayer

(***************************************************************************)
(* The sign-up on its own (auth_streamlit.py AuthManager.create_user).  A  *)
(* username is represented by its length and the kind of its characters:   *)
(* "word" (letters, digits, '_' and '-' only), "word_newline" (such        *)
(* characters followed by one final newline) or "other"; a password by its *)
(* length.  taken: username_exists answers True; fails: the store raises   *)
(* on the write.                                                           *)
(***************************************************************************)
MinNameLen == 3

MaxNameLen == 20

MinPwdLen == 6

\* Bounds: lengths up to NameSlack above the longest valid username and up to
\* PwdSlack above the shortest valid password.
NameSlack == 1

PwdSlack == 1

Usernames ==
  {u \in [len : 0..(MaxNameLen + NameSlack), chars : {"word", "word_newline", "other"}] :
     /\ u.chars = "other" => u.len >= 1
     /\ u.chars = "word_newline" => u.len >= 2}

Passwords == 0..(MinPwdLen + PwdSlack)

SignUps == [username : Usernames, password : Passwords, taken : BOOLEAN, fails : BOOLEAN]

\* re.match(r'^[a-zA-Z0-9_-]+$', username): $ also matches before a final newline.
MatchesPattern(u) == u.len >= 1 /\ u.chars \in {"word", "word_newline"}

\* validate_username: the tuple returned ("return False, " is a 1-tuple).
validate_username(u) ==
  IF u.len = 0 THEN <<FALSE>>
  ELSE IF u.len < MinNameLen THEN <<FALSE>>
  ELSE IF u.len > MaxNameLen THEN <<FALSE>>
  ELSE IF ~MatchesPattern(u) THEN <<FALSE>>
  ELSE <<TRUE, "">>

\* validate_password: the tuple returned.
validate_password(p) ==
  IF p = 0 THEN <<FALSE>>
  ELSE IF p < MinPwdLen THEN <<FALSE>>
  ELSE <<TRUE, "">>

\* "is_valid, error = t" raises ValueError unless t has two items.
Unpacks(t) == Len(t) = 2

Raised == [raised |-> TRUE, value |-> <<>>, written |-> FALSE]

Returned(ok, message, user_id, written) ==
  [raised |-> FALSE, value |-> <<ok, message, user_id>>, written |-> written]

\* create_user: how the call ends, and whether a user record was written.
create_user(username, password, taken, fails) ==
  LET checked_name == validate_username(username)
      checked_pwd  == validate_password(password)
  IN  IF ~Unpacks(checked_name) THEN Raised
      ELSE IF ~checked_name[1] THEN Returned(FALSE, checked_name[2], "None", FALSE)
      ELSE IF ~Unpacks(checked_pwd) THEN Raised
      ELSE IF ~checked_pwd[1] THEN Returned(FALSE, checked_pwd[2], "None", FALSE)
      ELSE IF taken THEN Returned(FALSE, "Username already taken", "None", FALSE)
      ELSE IF fails
           THEN Returned(FALSE, "Failed to create account. Please try again.", "None", FALSE)
      ELSE Returned(TRUE, "Account created successfully!", "user_id", TRUE)

InitAuth ==
  /\ program = "auth"
  /\ SessionIdle
  /\ FeedbackIdle
  /\ write_fails = {}
  /\ TabsIdle
  /\ LibIdle

\* A call of create_user.
SignUp ==
  /\ program = "auth"
  /\ \E input \in SignUps :
       /\ auth_input' = input
       /\ auth_result' = create_user(input.username, input.password, input.taken,
                                      input.fails)
  /\ auth_pc' = "done"
  /\ UNCHANGED <<program, webVars, cliVars, fbVars, write_fails, tabVars, find_pc,
                 find_scores, find_result>>

NextAuth == SignUp

SpecAuth == InitAuth /\ [][NextAuth]_vars

(***************************************************************************)
(* C30: for every username that is empty, shorter than 3, longer than 20   *)
(* or has a character outside letters, digits, '_' and '-', and for every  *)
(* password that is empty or shorter than 6, create_user returns a triple  *)
(* (False, message, None) without raising and without writing a record.    *)
(***************************************************************************)
InvalidSignUp ==
  \/ auth_input.username.len < 3
  \/ auth_input.username.len > 20
  \/ auth_input.username.chars # "word"
  \/ auth_input.password < 6

C30_InvalidInputReturnsError ==
  (auth_pc = "done" /\ InvalidSignUp)
    => /\ ~auth_result.raised
       /\ Len(auth_result.value) = 3
       /\ auth_result.value[1] = FALSE
       /\ auth_result.value[3] = "None"
       /\ ~auth_result.written

====
